---- MODULE Spec2Model ----
(***************************************************************************)
(* Model of the log-tailing core of eks-shell.py: tail_logs (the fan-out   *)
(* over a ThreadPoolExecutor and its SIGINT handler) and tail_pod_log (one *)
(* remote "kubectl exec ... tail -f" process per pod, read line by line    *)
(* and printed through rich).                                              *)
(*                                                                         *)
(* Two smaller specifications share the variables: SpecTag, the tag of a   *)
(* line as a function of the pod list, and SpecMain, main from the pod     *)
(* listing to its mode selection (get_pods, --log, --pod).                 *)
(*                                                                         *)
(* The main thread, the pool's worker threads, the remote processes and    *)
(* the signal source are separate processes of the model.  A step of the   *)
(* model is one statement-level step of one of them.                       *)
(***************************************************************************)
EXTENDS Integers, Sequences, FiniteSets, TLC

\* ------------------------------------------------------------------ bounds
MaxPods == 2        \* pods handed to tail_logs: 1..MaxPods
MaxLines == 2       \* lines the remote processes emit in total in one run
MaxInterrupts == 2  \* SIGINTs delivered in one run
MaxTagPods == 7     \* pods of a list whose lines are tagged: 1..MaxTagPods
MaxTagLines == 2    \* lines tagged in one run of the tagging specification
MaxListing == 2     \* lines of the pod listing main gets: 0..MaxListing

\* ------------------------------------------------------- program constants
\* POD_COLORS, line 42
POD_COLORS == <<"red", "green", "yellow", "blue", "magenta", "cyan">>

\* pod[-5:], line 143
ShortIdLen == 5

\* The shell's status for a command ended by SIGINT.
SigintStatus == 128 + 2

\* sys.exit(0) in signal_handler, line 170
HandlerExitStatus == 0

\* A normal return of main: the interpreter exits with 0.
ReturnExitStatus == 0

\* KeyboardInterrupt (no handler installed) reaches click, which aborts with 1.
AbortExitStatus == 1

\* No exit status yet: the process is running.
NoStatus == -1

\* "Never": the value of sinkAtInt and activeAtInt before the first SIGINT.
Never == -1

\* ------------------------------------------------------------ line contents
\* A line is a sequence of tokens.  "a" is an ordinary character, " " is
\* white space, "[/x]" is a piece of text that rich reads as a closing markup
\* tag naming a style that no tag of the line opened.
Ws == {" "}

LineSamples == { <<"a">>, <<"a", " ">>, <<"[/x]">> }

\* str.rstrip(): the line without its trailing white space, line 152
RECURSIVE RStrip(_)
RStrip(s) ==
    IF s = <<>> THEN <<>>
    ELSE IF s[Len(s)] \in Ws THEN RStrip(SubSeq(s, 1, Len(s) - 1))
    ELSE s

\* The line is interpolated into a rich markup string unescaped (line 152):
\* a closing tag in it that matches no open tag makes rich raise MarkupError.
MarkupRaises(s) == \E k \in 1..Len(s) : s[k] = "[/x]"

\* What line 152 puts on the console after the tag, when it raises nothing.
Rendered(line) == RStrip(line)

\* pod[-5:], lines 102 and 143
ShortId(pod) ==
    IF Len(pod) <= ShortIdLen THEN pod
    ELSE SubSeq(pod, Len(pod) - ShortIdLen + 1, Len(pod))

\* The colour of the pod's number in the list, counted from 1.
ColorFromOne(i) == POD_COLORS[((i + 1) % Len(POD_COLORS)) + 1]

\* POD_COLORS[i % len(POD_COLORS)] for the 0-based index i, line 176
Color(i) == POD_COLORS[(i % Len(POD_COLORS)) + 1]

Digits == <<"1", "2", "3", "4", "5", "6", "7", "8", "9">>

\* The pod names of a run, as get_pods returns them: the first column of
\* the pod listing, here the i-th pod of one deployment.
PodName(i) == <<"w", "e", "b", "-", "x", "7", "k", Digits[i]>>

PodList(n) == [i \in 1..n |-> PodName(i)]

\* The line of the pod listing for the i-th pod: its name, then the other
\* columns (here the status).
PodLine(i) == PodName(i) \o <<" ", "R", "u", "n">>

\* The pod name pattern the session was started with (pod_type).
PodType == <<"w", "e", "b">>

\* --log was not given: log_file is None.
None == "None"

\* --pod was not given: pod_num is None.  A pod number n that was given is <<n>>.
NoPodNum == <<>>

\* A --log path given on the command line.
LogPath == "/app/log/x.log"

VARIABLES
    pods,        \* the pod list tail_logs was called with
    handler,     \* TRUE once signal.signal(SIGINT, signal_handler) has run
    mpc,         \* where the main thread is
    next,        \* pods submitted so far by the for loop of tail_logs
    src,         \* per pod: the state of its tail_pod_log task
    nthreads,    \* worker threads the executor has started
    idleSem,     \* the executor's idle-thread semaphore
    proc,        \* per pod: the state of its remote process
    pipe,        \* per pod: lines written to proc.stdout and not yet read
    emitted,     \* per pod: how many lines the remote process has written
    sink,        \* the console: the tagged lines printed, in order
    notices,     \* "Stopping log tail..." notices printed
    interrupts,  \* SIGINTs delivered to the process
    status,      \* the exit status, NoStatus while the process runs
    sinkAtInt,   \* Len(sink) when the first SIGINT arrived, -1 before it
    activeAtInt, \* sources running when the first SIGINT arrived, -1 before it
    pending,     \* per pod: console writes of the current print still to do
    spawned,     \* per pod: Popen objects created for it
    kubectl,     \* main: the result of the pod listing command
    pod_type,    \* main: the pod name pattern
    log_file,    \* main: the --log option
    pod_num,     \* main: the pod number argument
    called       \* main: the calls of tail_logs and exec_into_pod it made

\* The options and locals of main.
mainVars == <<kubectl, pod_type, log_file, pod_num, called>>

vars == <<pods, handler, mpc, next, src, nthreads, idleSem, proc, pipe,
          emitted, sink, notices, interrupts, status, sinkAtInt, activeAtInt,
          pending, spawned, mainVars>>

N == Len(pods)
Pods == 1..N

\* States of a task in which tail_pod_log has returned.
DoneStates == {"eof", "spawn_error", "read_error", "sink_error", "markup_error"}

Done(p) == src[p] \in DoneStates

\* Tasks a worker thread is running.
Busy == {p \in Pods : src[p] \in {"spawning", "reading"}}

\* Worker threads waiting on the work queue.
IdleThreads == nthreads - Cardinality(Busy)

\* The work queue: submitted tasks no worker has taken, oldest first.
Queued == {p \in Pods : src[p] = "queued"}

Min(S) == CHOOSE x \in S : \A y \in S : x <= y

\* A pool of one worker, whatever the number of pods.
OneWorker == Min({1, N})

\* ThreadPoolExecutor(max_workers=len(pods)), line 174
MaxWorkers == N

\* The executor has been shut down: by the with block's __exit__ or by the
\* interpreter's exit hook.
Shutdown == mpc \in {"join", "finalize", "exited"}

Exited == mpc = "exited"

\* Every worker thread can be joined: the executor is shut down, the queue is
\* empty and no worker is inside tail_pod_log, so each worker returns from its
\* loop.
WorkersReturned == Shutdown /\ Queued = {} /\ Busy = {}

Init ==
    /\ pods \in {PodList(n) : n \in 1..MaxPods}
    /\ handler = FALSE
    /\ mpc = "install"
    /\ next = 0
    /\ src = [p \in 1..Len(pods) |-> "unsubmitted"]
    /\ nthreads = 0
    /\ idleSem = 0
    /\ proc = [p \in 1..Len(pods) |-> "none"]
    /\ pipe = [p \in 1..Len(pods) |-> <<>>]
    /\ emitted = [p \in 1..Len(pods) |-> 0]
    /\ sink = <<>>
    /\ notices = 0
    /\ interrupts = 0
    /\ status = NoStatus
    /\ sinkAtInt = Never
    /\ activeAtInt = Never
    /\ pending = [p \in 1..Len(pods) |-> <<>>]
    /\ spawned = [p \in 1..Len(pods) |-> 0]
    /\ kubectl = [returncode |-> 0, stdout |-> [i \in 1..Len(pods) |-> PodLine(i)]]
    /\ pod_type = PodType
    /\ log_file = LogPath
    /\ pod_num = NoPodNum
    /\ called = <<[fn |-> "tail_logs", pod |-> <<>>, log_file |-> LogPath]>>

\* ------------------------------------------------------------- main thread
\* tail_logs goes on to the pool without installing the handler.
HandlerNotInstalled ==
    /\ mpc = "install"
    /\ mpc' = "submit"
    /\ UNCHANGED <<pods, handler, next, src, nthreads, idleSem, proc, pipe,
                   emitted, sink, notices, interrupts, status, sinkAtInt, activeAtInt,
                   pending, spawned, mainVars>>

\* signal.signal(signal.SIGINT, signal_handler), line 172
InstallHandler ==
    /\ mpc = "install"
    /\ handler' = TRUE
    /\ mpc' = "submit"
    /\ UNCHANGED <<pods, next, src, nthreads, idleSem, proc, pipe,
                   emitted, sink, notices, interrupts, status, sinkAtInt, activeAtInt,
                   pending, spawned, mainVars>>

\* The first pod of the list, whatever the turn of the loop.
FirstPod == Min({1, N})

\* The pod of the current turn of "for i, pod in enumerate(pods)", line 175.
SubmittedPod == next + 1

\* executor.submit(tail_pod_log, pod, ...), lines 175-177: the task is queued;
\* an idle worker is reused when the semaphore says there is one, otherwise a
\* new worker is started while fewer than max_workers exist.
Submit ==
    /\ mpc = "submit"
    /\ next < N
    /\ next' = next + 1
    /\ src' = [src EXCEPT ![SubmittedPod] = "queued"]
    /\ IF idleSem > 0
         THEN idleSem' = idleSem - 1 /\ UNCHANGED nthreads
         ELSE /\ UNCHANGED idleSem
              /\ nthreads' = IF nthreads < MaxWorkers THEN nthreads + 1 ELSE nthreads
    /\ UNCHANGED <<pods, handler, mpc, proc, pipe, emitted, sink,
                   notices, interrupts, status, sinkAtInt, activeAtInt,
                   pending, spawned, mainVars>>

\* The for loop is over: the with block calls executor.shutdown(wait=True).
EnterJoin ==
    /\ mpc = "submit"
    /\ next = N
    /\ mpc' = "join"
    /\ UNCHANGED <<pods, handler, next, src, nthreads, idleSem, proc,
                   pipe, emitted, sink, notices, interrupts, status, sinkAtInt, activeAtInt,
                   pending, spawned, mainVars>>

\* shutdown(wait=True) has joined every worker: tail_logs returns (or the
\* pending SystemExit goes on), main is left and the interpreter finalizes.
JoinDone ==
    /\ mpc = "join"
    /\ WorkersReturned
    /\ mpc' = "finalize"
    /\ status' = IF status = NoStatus THEN ReturnExitStatus ELSE status
    /\ UNCHANGED <<pods, handler, next, src, nthreads, idleSem, proc,
                   pipe, emitted, sink, notices, interrupts, sinkAtInt, activeAtInt,
                   pending, spawned, mainVars>>

\* Interpreter finalization joins the remaining worker threads, then exits.
Exit ==
    /\ mpc = "finalize"
    /\ WorkersReturned
    /\ mpc' = "exited"
    /\ UNCHANGED <<pods, handler, next, src, nthreads, idleSem, proc,
                   pipe, emitted, sink, notices, interrupts, status, sinkAtInt, activeAtInt,
                   pending, spawned, mainVars>>

\* ---------------------------------------------------------------- signals
\* signal_handler, lines 168-170: print the notice, raise SystemExit(0).
\* The handler runs in the main thread, wherever that thread is:
\*   in the for loop: the with block's __exit__ joins the workers first;
\*   in the join of __exit__: the join is abandoned, the interpreter finalizes
\*     and joins the worker threads again in its exit hook;
\*   in that last join: the exception is dropped there and the process exits
\*     with its workers and their remote processes still running.
SignalHandler ==
    /\ notices' = notices + 1
    /\ status' = IF status = NoStatus THEN HandlerExitStatus ELSE status
    /\ mpc' = CASE mpc = "submit" -> "join"
                [] mpc = "join" -> "finalize"
                [] mpc = "finalize" -> "exited"

\* No handler yet: Python's default raises KeyboardInterrupt in main, which
\* ends the command with the abort status; no worker exists at that point.
DefaultHandler ==
    /\ UNCHANGED notices
    /\ status' = AbortExitStatus
    /\ mpc' = "finalize"

\* A SIGINT.  group = TRUE is Ctrl-C on the terminal: the signal goes to the
\* foreground process group, so every running kubectl child gets it too and
\* dies.  group = FALSE is a signal sent to the Python process alone.
Interrupt(group) ==
    /\ ~Exited
    /\ interrupts < MaxInterrupts
    /\ interrupts' = interrupts + 1
    /\ sinkAtInt' = IF sinkAtInt = Never THEN Len(sink) ELSE sinkAtInt
    /\ activeAtInt' = IF activeAtInt = Never THEN Cardinality(Busy) ELSE activeAtInt
    /\ IF handler THEN SignalHandler ELSE DefaultHandler
    /\ proc' = IF group
                 THEN [p \in Pods |-> IF proc[p] = "running" THEN "exited" ELSE proc[p]]
                 ELSE proc
    /\ UNCHANGED <<pods, handler, next, src, nthreads, idleSem, pipe,
                   emitted, sink, pending, spawned, mainVars>>

\* ---------------------------------------------------------- worker threads
\* A worker waiting on the queue takes the oldest task and calls tail_pod_log.
TakeTask ==
    /\ ~Exited
    /\ IdleThreads > 0
    /\ Queued # {}
    /\ src' = [src EXCEPT ![Min(Queued)] = "spawning"]
    /\ UNCHANGED <<pods, handler, mpc, next, nthreads, idleSem, proc,
                   pipe, emitted, sink, notices, interrupts, status, sinkAtInt, activeAtInt,
                   pending, spawned, mainVars>>

\* tail_pod_log has returned in state st: its Popen object is dropped, which
\* closes the read end of the pipe with whatever is unread in it (the remote
\* process is neither terminated nor waited for); the worker releases the
\* idle semaphore and goes back to the queue.
Return(p, st) ==
    /\ src' = [src EXCEPT ![p] = st]
    /\ pipe' = [pipe EXCEPT ![p] = <<>>]
    /\ idleSem' = idleSem + 1

\* subprocess.Popen(...), lines 145-150, started.
Spawn(p) ==
    /\ ~Exited
    /\ src[p] = "spawning"
    /\ src' = [src EXCEPT ![p] = "reading"]
    /\ proc' = [proc EXCEPT ![p] = "running"]
    /\ spawned' = [spawned EXCEPT ![p] = @ + 1]
    /\ UNCHANGED <<pods, handler, mpc, next, nthreads, idleSem, pipe,
                   emitted, sink, notices, interrupts, status, sinkAtInt, activeAtInt,
                   pending, mainVars>>

\* subprocess.Popen(...) raised and nothing caught it: the session is over.
SpawnFailUncaught(p) ==
    /\ ~Exited
    /\ src[p] = "spawning"
    /\ Return(p, "spawn_error")
    /\ mpc' = "exited"
    /\ status' = AbortExitStatus
    /\ UNCHANGED <<pods, handler, next, nthreads, proc,
                   emitted, sink, notices, interrupts, sinkAtInt, activeAtInt,
                   pending, spawned, mainVars>>

\* subprocess.Popen(...) raised: caught by "except Exception: pass", 153-154.
SpawnFail(p) ==
    /\ ~Exited
    /\ src[p] = "spawning"
    /\ Return(p, "spawn_error")
    /\ UNCHANGED <<pods, handler, mpc, next, nthreads, proc,
                   emitted, sink, notices, interrupts, status, sinkAtInt, activeAtInt,
                   pending, spawned, mainVars>>

\* The newest line of the pipe.
PipeLast(q) == q[Len(q)]

\* The line "for line in proc.stdout" yields next.
PipeHead(q) == Head(q)

PipeRest(q) == Tail(q)

\* The record rprint puts on the console for a line of pod p, line 152.
Tagged(p, rec) ==
    [pod |-> p, color |-> Color(p - 1), sid |-> ShortId(pods[p]),
     seq |-> rec.seq, text |-> Rendered(rec.text)]

\* The tag printed by one call and the text by a second one.
PrintTagThenText(p, rec) ==
    << [Tagged(p, rec) EXCEPT !.text = <<>>],
       [Tagged(p, rec) EXCEPT !.color = "", !.sid = <<>>] >>

\* The print calls made for one line, line 152: a single rprint of one
\* string that holds the tag and the text.  A call is one write to the console.
PrintCalls(p, rec) == << Tagged(p, rec) >>

\* One turn of the loop of lines 151-152: read a line, print it tagged.  A
\* MarkupError of rprint is caught by line 153 and ends tail_pod_log.  Each
\* print call of the turn is a step of its own, between which the other
\* threads run.
ReadLine(p) ==
    /\ ~Exited
    /\ src[p] = "reading"
    /\ pending[p] # <<>> \/ pipe[p] # <<>>
    /\ IF pending[p] # <<>>
         THEN /\ sink' = Append(sink, Head(pending[p]))
              /\ pending' = [pending EXCEPT ![p] = Tail(@)]
              /\ UNCHANGED <<src, idleSem, pipe>>
         ELSE IF MarkupRaises(Rendered(PipeHead(pipe[p]).text))
         THEN Return(p, "markup_error") /\ UNCHANGED <<sink, pending>>
         ELSE /\ sink' = Append(sink, Head(PrintCalls(p, PipeHead(pipe[p]))))
              /\ pending' = [pending EXCEPT ![p] = Tail(PrintCalls(p, PipeHead(pipe[p])))]
              /\ pipe' = [pipe EXCEPT ![p] = PipeRest(pipe[p])]
              /\ UNCHANGED <<src, idleSem>>
    /\ UNCHANGED <<pods, handler, mpc, next, nthreads, proc, emitted,
                   notices, interrupts, status, sinkAtInt, activeAtInt,
                   spawned, mainVars>>

\* The console write of rprint raises (the stream is closed, the text cannot
\* be encoded): caught by line 153, tail_pod_log returns.
SinkFail(p) ==
    /\ ~Exited
    /\ src[p] = "reading"
    /\ pipe[p] # <<>>
    /\ Return(p, "sink_error")
    /\ UNCHANGED <<pods, handler, mpc, next, nthreads, proc, emitted,
                   sink, notices, interrupts, status, sinkAtInt, activeAtInt,
                   pending, spawned, mainVars>>

\* Reading proc.stdout raises (text=True, line 149: the bytes of the line do
\* not decode; or the read itself fails): caught by line 153, tail_pod_log
\* returns.
ReadFail(p) ==
    /\ ~Exited
    /\ src[p] = "reading"
    /\ pipe[p] # <<>>
    /\ Return(p, "read_error")
    /\ UNCHANGED <<pods, handler, mpc, next, nthreads, proc, emitted,
                   sink, notices, interrupts, status, sinkAtInt, activeAtInt,
                   pending, spawned, mainVars>>

\* End of file on proc.stdout: the loop of line 151 ends, tail_pod_log returns.
ReadEOF(p) ==
    /\ ~Exited
    /\ src[p] = "reading"
    /\ pipe[p] = <<>>
    /\ proc[p] = "exited"
    /\ Return(p, "eof")
    /\ UNCHANGED <<pods, handler, mpc, next, nthreads, proc,
                   emitted, sink, notices, interrupts, status, sinkAtInt, activeAtInt,
                   pending, spawned, mainVars>>

\* --------------------------------------------------------- remote processes
TotalEmitted == LET RECURSIVE Sum(_)
                    Sum(k) == IF k = 0 THEN 0 ELSE emitted[k] + Sum(k - 1)
                IN Sum(N)

\* The remote tail -f writes a line to its stdout, whose read end is open.
Emit(p, line) ==
    /\ ~Exited
    /\ proc[p] = "running"
    /\ src[p] = "reading"
    /\ TotalEmitted < MaxLines
    /\ emitted' = [emitted EXCEPT ![p] = @ + 1]
    /\ pipe' = [pipe EXCEPT ![p] = Append(@, [seq |-> emitted[p] + 1, text |-> line])]
    /\ UNCHANGED <<pods, handler, mpc, next, src, nthreads, idleSem,
                   proc, sink, notices, interrupts, status, sinkAtInt, activeAtInt,
                   pending, spawned, mainVars>>

\* The remote command ends on its own account (pod not found, pod deleted,
\* connection lost): its stdout reaches end of file once drained.
ProcExit(p) ==
    /\ ~Exited
    /\ proc[p] = "running"
    /\ proc' = [proc EXCEPT ![p] = "exited"]
    /\ UNCHANGED <<pods, handler, mpc, next, src, nthreads, idleSem,
                   pipe, emitted, sink, notices, interrupts, status, sinkAtInt, activeAtInt,
                   pending, spawned, mainVars>>

\* ------------------------------------------------------------ specification
MainStep == InstallHandler \/ Submit \/ EnterJoin \/ JoinDone \/ Exit

WorkerStep ==
    \/ TakeTask
    \/ \E p \in Pods : Spawn(p)
    \/ \E p \in Pods : SpawnFail(p)
    \/ \E p \in Pods : ReadLine(p)
    \/ \E p \in Pods : SinkFail(p)
    \/ \E p \in Pods : ReadFail(p)
    \/ \E p \in Pods : ReadEOF(p)

EnvStep ==
    \/ \E group \in BOOLEAN : Interrupt(group)
    \/ \E p \in Pods, line \in LineSamples : Emit(p, line)
    \/ \E p \in Pods : ProcExit(p)

Next == MainStep \/ WorkerStep \/ EnvStep

Spec == Init /\ [][Next]_vars

\* The steps of the worker that runs the task of pod p.
WorkerOf(p) ==
    /\ p \in Pods
    /\ Spawn(p) \/ SpawnFail(p) \/ ReadLine(p) \/ SinkFail(p) \/ ReadFail(p) \/ ReadEOF(p)

\* Scheduling: the main thread and every worker thread are operating-system
\* threads, each of which runs when it can take a step.  Nothing is assumed
\* of the remote processes or of the signal source.
Fairness ==
    /\ WF_vars(MainStep)
    /\ WF_vars(TakeTask)
    /\ \A p \in 1..MaxPods : WF_vars(WorkerOf(p))

SpecFair == Spec /\ Fairness

\* ------------------------------------------------------------------ claims
\* Line k of pod p is on the console.
Written(p, k) == \E i \in 1..Len(sink) : sink[i].pod = p /\ sink[i].seq = k

\* tail_pod_log of pod p ended on an exception.
Failed(p) == Done(p) /\ src[p] # "eof"

\* The lines of pod p on the console, in console order.
SinkOf(p) == SelectSeq(sink, LAMBDA r : r.pod = p)

\* Lines of pod p printed after the first SIGINT was delivered.
LinesAfterInt(p) ==
    IF sinkAtInt = Never THEN 0
    ELSE Cardinality({i \in (sinkAtInt + 1)..Len(sink) : sink[i].pod = p})

\* Remote processes that are still running.
Running == {p \in Pods : proc[p] = "running"}

\* C1: sources run concurrently, none waits for another.  In every state of a
\* running session each submitted task has a worker thread of its own to run
\* it (counting the tasks queued ahead of it), a task in Popen can go on, and
\* a source with a line in its pipe can print it, whatever the state of the
\* other sources: a source waits for its own remote process only.
C1_Concurrent ==
    \A p \in Pods :
        ~Exited =>
            /\ src[p] = "queued" =>
                   IdleThreads >= Cardinality({q \in Queued : q <= p})
            /\ src[p] = "spawning" => ENABLED (Spawn(p) \/ SpawnFail(p))
            /\ (src[p] = "reading" /\ pipe[p] # <<>>) => ENABLED ReadLine(p)

\* C1, the same under fair scheduling of the threads: every submitted task
\* is taken by a worker and every emitted line is eventually on the console,
\* unless its own source failed or the process has exited.
C1_Eventually ==
    \A p \in 1..MaxPods :
        /\ (p \in Pods /\ src[p] = "queued")
              ~> (Exited \/ (p \in Pods /\ src[p] # "queued"))
        /\ \A k \in 1..MaxLines :
              (p \in Pods /\ emitted[p] >= k)
                  ~> (Exited \/ Written(p, k) \/ (p \in Pods /\ Failed(p)))

\* C1 witness: an earlier pod's source is stalled (its remote process runs
\* and has emitted nothing) and a later pod's line is on the console.
C1_Witness ==
    \E q \in Pods, p \in Pods :
        /\ q < p
        /\ src[q] = "reading" /\ proc[q] = "running" /\ emitted[q] = 0
        /\ Written(p, 1)

\* C2: a single interrupt delivered while sources are active leads to the
\* exit of the process, with no further interrupt and no step of the remote
\* side.
C2_InterruptStopsAll ==
    (notices = 1 /\ activeAtInt > 0) ~> (Exited \/ interrupts > 1)

\* C3: the session never ends while a spawned remote process is running.
C3_NoProcessOutlivesSession == Exited => Running = {}

\* C4: the "stopping" notice is printed at most once, however many
\* interrupts arrive.
C4_NoticeOnce == notices <= 1

\* C5 as stated: a session ended by an interrupt exits with a status other
\* than the success status.
C5_InterruptedStatusNotSuccess ==
    (Exited /\ activeAtInt > 0) => status # ReturnExitStatus

\* C5 as amended: a session ended by an interrupt delivered while sources
\* were active exits with status 0, which is the status of a normal return.
C5_InterruptedStatusZero ==
    (Exited /\ activeAtInt > 0) => (status = 0 /\ status = ReturnExitStatus)

\* C5 witness: the process has exited after an interrupt that found every
\* source of a session of several pods active.
C5_Witness == Exited /\ N >= 2 /\ activeAtInt = N /\ notices >= 1

\* C6: in a run without cancellation in which no console write failed, when
\* the session has ended, every line every source emitted is on the console
\* exactly once, whatever its content.
C6_NoLossNoDup ==
    (/\ Exited
     /\ interrupts = 0
     /\ \A p \in Pods : src[p] # "sink_error") =>
        \A p \in Pods :
            /\ Len(SinkOf(p)) = emitted[p]
            /\ \A k \in 1..emitted[p] : Written(p, k)

\* C7: the lines of one pod are on the console in the order the pod's remote
\* process emitted them: the n-th line printed for a pod is the n-th it emitted.
C7_PerSourceFifo ==
    \A p \in Pods : \A n \in 1..Len(SinkOf(p)) : SinkOf(p)[n].seq = n

\* C7 witness: in a session of several pods, two lines of one pod are on the
\* console.
C7_Witness ==
    N >= 2 /\ \E p \in Pods : Written(p, 1) /\ Written(p, 2)

\* C8: after the interrupt a source prints at most one further line.
C8_AtMostOneLineAfterInterrupt == \A p \in Pods : LinesAfterInt(p) <= 1

\* C9: a failure of one source ends that source alone.  When a session that
\* was not interrupted has ended, every source that did not itself fail has
\* run to the end of its stream with all its lines on the console, and
\* nothing was printed for a pod whose spawn failed.
C9_FailureIsolated ==
    (Exited /\ interrupts = 0) =>
        \A q \in Pods :
            /\ ~Failed(q) => (src[q] = "eof" /\ \A k \in 1..emitted[q] : Written(q, k))
            /\ src[q] = "spawn_error" => (SinkOf(q) = <<>> /\ proc[q] = "none")

\* C9 witness: the session has ended, one pod's spawn failed, and a sibling
\* delivered a line and reached the end of its stream.
C9_Witness ==
    /\ Exited /\ interrupts = 0
    /\ \E p \in Pods, q \in Pods :
           src[p] = "spawn_error" /\ src[q] = "eof" /\ Written(q, 1)

\* C10: a failed console write is fatal: the process ends with a non-zero
\* status.
C10_SinkFailureFatal ==
    (Exited /\ interrupts = 0 /\ \E p \in Pods : src[p] = "sink_error") => status > 0

\* Console lines of pod p that are not one of the log lines its remote process
\* emitted: the lines that could report a failure of the source.
InfoLines(p) ==
    {i \in 1..Len(sink) : sink[i].pod = p /\ sink[i].seq \notin 1..emitted[p]}

\* C11: every source that failed (at its spawn or on its stream) has exactly
\* one informational line, tagged with its pod, on the console.
C11_FailureVisible ==
    \A p \in Pods : Failed(p) => Cardinality(InfoLines(p)) = 1

\* Lines of pod p that its thread has taken from the pipe.
LinesRead(p) == emitted[p] - Len(pipe[p])

\* C12: a tagged line reaches the console as one unit.  No source is ever
\* between two console writes of one line, so no other thread can write
\* between a tag and its text; every unit on the console carries its pod's
\* tag, and while a source reads there is exactly one unit per line it has
\* taken from its pipe.
C12_LineAtomic ==
    \A p \in Pods :
        /\ pending[p] = <<>>
        /\ src[p] = "reading" => Len(SinkOf(p)) = LinesRead(p)
        /\ \A n \in 1..Len(SinkOf(p)) :
               /\ SinkOf(p)[n].sid = ShortId(pods[p])
               /\ SinkOf(p)[n].color # ""

\* C12 witness: two sources are reading at the same time and their lines
\* alternate on the console.
C12_Witness ==
    /\ Len(sink) >= 2
    /\ sink[1].pod # sink[2].pod
    /\ \A p \in Pods : src[p] = "reading"

\* ---------------------------------------------------- tagging specification
\* The tag of a line as a function of the pod list alone: tail_logs is called
\* with a list of up to MaxTagPods pods and lines of its pods are printed in
\* any order.  No thread, process or signal takes part.
TagInit ==
    /\ pods \in {PodList(n) : n \in 1..MaxTagPods}
    /\ handler = FALSE
    /\ mpc = "tag"
    /\ next = 0
    /\ src = [p \in 1..Len(pods) |-> "unsubmitted"]
    /\ nthreads = 0
    /\ idleSem = 0
    /\ proc = [p \in 1..Len(pods) |-> "none"]
    /\ pipe = [p \in 1..Len(pods) |-> <<>>]
    /\ emitted = [p \in 1..Len(pods) |-> 0]
    /\ sink = <<>>
    /\ notices = 0
    /\ interrupts = 0
    /\ status = NoStatus
    /\ sinkAtInt = Never
    /\ activeAtInt = Never
    /\ pending = [p \in 1..Len(pods) |-> <<>>]
    /\ spawned = [p \in 1..Len(pods) |-> 0]
    /\ kubectl = [returncode |-> 0, stdout |-> [i \in 1..Len(pods) |-> PodLine(i)]]
    /\ pod_type = PodType
    /\ log_file = LogPath
    /\ pod_num = NoPodNum
    /\ called = <<[fn |-> "tail_logs", pod |-> <<>>, log_file |-> LogPath]>>

\* Line 152 for the next line of pod p, whose text is line.
TagLine(p, line) ==
    /\ mpc = "tag"
    /\ Len(sink) < MaxTagLines
    /\ ~MarkupRaises(Rendered(line))
    /\ emitted' = [emitted EXCEPT ![p] = @ + 1]
    /\ sink' = Append(sink, Tagged(p, [seq |-> emitted[p] + 1, text |-> line]))
    /\ UNCHANGED <<pods, handler, mpc, next, src, nthreads, idleSem, proc, pipe,
                   notices, interrupts, status, sinkAtInt, activeAtInt,
                   pending, spawned, mainVars>>

TagNext == \E p \in Pods, line \in LineSamples : TagLine(p, line)

SpecTag == TagInit /\ [][TagNext]_vars

\* The size of the palette, K.
PaletteSize == 6

\* i mod K by repeated subtraction.
RECURSIVE Category(_)
Category(i) == IF i < PaletteSize THEN i ELSE Category(i - PaletteSize)

\* The final ShortIdLen characters of a name.
FinalChars(name) == [k \in 1..ShortIdLen |-> name[Len(name) - ShortIdLen + k]]

\* C13: tagging is positional.  Every line on the console of the pod at
\* 0-based index i has the colour of category i mod K, K = 6 the size of the
\* palette, and the final 5 characters of the pod's name as short identifier;
\* all lines of one pod have the same tag whatever the order of printing;
\* three pods have categories 0, 1, 2 and the pod at index 6 has category 0.
C13_TagPositional ==
    /\ Len(POD_COLORS) = PaletteSize
    /\ \A n \in 1..Len(sink) :
           /\ sink[n].color = POD_COLORS[Category(sink[n].pod - 1) + 1]
           /\ sink[n].sid = FinalChars(pods[sink[n].pod])
           /\ sink[n].pod <= 3 => sink[n].color = POD_COLORS[sink[n].pod]
           /\ sink[n].pod = 7 => sink[n].color = POD_COLORS[1]
    /\ \A n \in 1..Len(sink), k \in 1..Len(sink) :
           sink[n].pod = sink[k].pod =>
               (sink[n].color = sink[k].color /\ sink[n].sid = sink[k].sid)

\* C13 witness: lines of the pods at index 0 and at index 6 are on the
\* console, the later pod's first.
C13_Witness ==
    /\ Len(sink) = 2
    /\ sink[1].pod = 7
    /\ sink[2].pod = 1

\* Popen objects created in the session so far.
TotalSpawned == LET RECURSIVE Sum(_)
                    Sum(k) == IF k = 0 THEN 0 ELSE spawned[k] + Sum(k - 1)
                IN Sum(N)

\* C14: in every state of a session over N pods at most one remote follow
\* process has been created for each pod, a pod has a process exactly when
\* one was created for it, and neither the processes created, nor the worker
\* threads, nor the sources running at the same time are more than N.
C14_SourceCount ==
    /\ \A p \in Pods :
           /\ spawned[p] <= 1
           /\ proc[p] # "none" <=> spawned[p] = 1
    /\ TotalSpawned <= N
    /\ nthreads <= N
    /\ Cardinality(Busy) <= nthreads
    /\ Cardinality(Running) <= TotalSpawned

\* C14 witness: in a session of several pods every pod has its remote
\* process, all of them running at the same time.
C14_Witness ==
    /\ N >= 2
    /\ TotalSpawned = N
    /\ Cardinality(Running) = N
    /\ Cardinality(Busy) = N

\* C16: the handler is installed before the first source is started.  In
\* every state in which a task has been submitted, a worker thread exists or
\* a remote process has been created, SIGINT is routed to signal_handler; and
\* an interrupt that found sources active was handled by signal_handler (it
\* printed the notice), never by the default action.
C16_HandlerBeforeSources ==
    /\ (\/ nthreads > 0
        \/ next > 0
        \/ \E p \in Pods : src[p] # "unsubmitted" \/ proc[p] # "none") => handler
    /\ activeAtInt > 0 => notices >= 1

\* C16 witness: the process runs, every source of a session of several pods
\* was active when the first SIGINT arrived, and signal_handler handled it.
C16_Witness ==
    /\ ~Exited
    /\ handler
    /\ N >= 2
    /\ activeAtInt = N
    /\ notices = 1
    /\ interrupts = 1

\* ------------------------------------------------------- main specification
\* main from the pod listing (line 230) to the call of tail_logs or
\* exec_into_pod or to its return.  The inputs are the result of the listing
\* command, the pattern and the --log and --pod options.

\* pattern in line, line 89: t occurs in s as a run of characters.
Contains(s, t) ==
    \E k \in 0..(Len(s) - Len(t)) : SubSeq(s, k + 1, k + Len(t)) = t

\* line.split()[0], line 90: the first run of characters that are not white
\* space.
RECURSIVE FirstWord(_)
FirstWord(line) ==
    IF line = <<>> THEN <<>>
    ELSE IF Head(line) \in Ws THEN FirstWord(Tail(line))
    ELSE IF Len(line) = 1 \/ line[2] \in Ws THEN <<Head(line)>>
    ELSE <<Head(line)>> \o FirstWord(Tail(line))

\* get_pods without the test of the return code.
get_pods_unchecked(result, pattern) ==
    LET matching == SelectSeq(result.stdout,
                              LAMBDA line : line # <<>> /\ Contains(line, pattern))
    IN  [i \in 1..Len(matching) |-> FirstWord(matching[i])]

\* get_pods, lines 82-91
get_pods(result, pattern) ==
    IF result.returncode # 0 THEN <<>>
    ELSE LET matching == SelectSeq(result.stdout,
                                   LAMBDA line : line # <<>> /\ Contains(line, pattern))
         IN  [i \in 1..Len(matching) |-> FirstWord(matching[i])]

\* Lines of a pod listing: two pods of the "web" deployment, a pod whose name
\* does not hold the pattern, one whose status column does, a blank line.
ListingLines ==
    { PodLine(1), PodLine(2),
      <<"j", "o", "b", " ", "R", "u", "n">>,
      <<"j", "o", "b", " ", "w", "e", "b">>,
      <<>> }

Listings == UNION {[1..n -> ListingLines] : n \in 0..MaxListing}

Patterns == {PodType, <<"a", "p", "i">>}

\* f"/app/log/{env_long}.log", lines 214 and 241
DefaultLogPath == "/app/log/env.log"

\* raise typer.Exit(1), lines 234 and 260
TyperExitStatus == 1

MainInit ==
    /\ kubectl \in [returncode : {0, 1}, stdout : Listings]
    /\ pod_type \in Patterns
    /\ log_file \in {None, "", LogPath}
    /\ pod_num \in {NoPodNum} \cup {<<n>> : n \in 0..(MaxListing + 1)}
    /\ called = <<>>
    /\ pods = <<>>
    /\ handler = FALSE
    /\ mpc = "get_pods"
    /\ next = 0
    /\ src = <<>>
    /\ nthreads = 0
    /\ idleSem = 0
    /\ proc = <<>>
    /\ pipe = <<>>
    /\ emitted = <<>>
    /\ sink = <<>>
    /\ notices = 0
    /\ interrupts = 0
    /\ status = NoStatus
    /\ sinkAtInt = Never
    /\ activeAtInt = Never
    /\ pending = <<>>
    /\ spawned = <<>>

\* The state of a log session, which main does not touch before tail_logs.
sessionVars == <<handler, next, src, nthreads, idleSem, proc, pipe, emitted,
                 sink, notices, interrupts, sinkAtInt, activeAtInt, pending,
                 spawned>>

\* pods = get_pods(namespace, pod_type), line 230
GetPods ==
    /\ mpc = "get_pods"
    /\ pods' = get_pods(kubectl, pod_type)
    /\ mpc' = "check_pods"
    /\ UNCHANGED <<status, sessionVars, mainVars>>

\* if not pods: raise typer.Exit(1), lines 232-234; else display_pods, 236
CheckPods ==
    /\ mpc = "check_pods"
    /\ IF pods = <<>>
         THEN mpc' = "returned" /\ status' = TyperExitStatus
         ELSE mpc' = "log_mode" /\ UNCHANGED status
    /\ UNCHANGED <<pods, sessionVars, mainVars>>

\* A --log option that has a path.
LogGiven == log_file \notin {None, ""}

\* log_file is not None, line 239
LogRequested == log_file # None

\* Lines 239-244: with --log, tail_logs is called with the path, or with the
\* default path for an empty one; main returns when tail_logs does.
LogMode ==
    /\ mpc = "log_mode"
    /\ IF LogRequested
         THEN /\ called' = Append(called,
                     [fn |-> "tail_logs", pod |-> <<>>,
                      log_file |-> IF log_file = "" THEN DefaultLogPath ELSE log_file])
              /\ mpc' = "tail_logs"
         ELSE mpc' = "pod_hint" /\ UNCHANGED called
    /\ UNCHANGED <<pods, status, sessionVars, kubectl, pod_type, log_file, pod_num>>

\* Lines 247-255: without --pod the hint is shown and main returns.
PodHint ==
    /\ mpc = "pod_hint"
    /\ IF pod_num = NoPodNum
         THEN mpc' = "returned" /\ status' = ReturnExitStatus
         ELSE mpc' = "validate" /\ UNCHANGED status
    /\ UNCHANGED <<pods, sessionVars, mainVars>>

\* pod_num < 1 or pod_num > len(pods), line 258
PodNumInvalid == pod_num[1] < 1 \/ pod_num[1] > Len(pods)

\* Lines 258-260: an invalid pod number ends main with typer.Exit(1).
ValidatePodNum ==
    /\ mpc = "validate"
    /\ IF PodNumInvalid
         THEN mpc' = "returned" /\ status' = TyperExitStatus
         ELSE mpc' = "exec" /\ UNCHANGED status
    /\ UNCHANGED <<pods, sessionVars, mainVars>>

\* pods[pod_num - 1] of the 0-based list, line 263
ExecTarget == pods[pod_num[1]]

\* exec_into_pod(pod, ...), line 264: the shell runs, then main returns.
ExecIntoPod ==
    /\ mpc = "exec"
    /\ called' = Append(called,
                        [fn |-> "exec_into_pod", pod |-> ExecTarget, log_file |-> None])
    /\ mpc' = "returned"
    /\ status' = ReturnExitStatus
    /\ UNCHANGED <<pods, sessionVars, kubectl, pod_type, log_file, pod_num>>

MainNext ==
    GetPods \/ CheckPods \/ LogMode \/ PodHint \/ ValidatePodNum \/ ExecIntoPod

SpecMain == MainInit /\ [][MainNext]_vars

\* main has gone through its mode selection: it has returned, exited, or is
\* inside tail_logs.
MainDecided == mpc \in {"returned", "tail_logs"}

\* The listing command succeeded and a line of its output holds the pattern.
ListingMatches ==
    /\ kubectl.returncode = 0
    /\ \E i \in 1..Len(kubectl.stdout) : Contains(kubectl.stdout[i], pod_type)

\* C15: tail_logs and exec_into_pod are only reached with a pod list that is
\* not empty.  Whenever the listing fails or no line of it matches, main ends
\* with status 1 and has called neither; and whenever one of them is called
\* the list has a pod, so the worker pool never has size 0.
C15_NonEmptyPodList ==
    /\ called # <<>> => (Len(pods) >= 1 /\ MaxWorkers >= 1)
    /\ (MainDecided /\ ~ListingMatches) =>
           (pods = <<>> /\ status = 1 /\ called = <<>> /\ mpc = "returned")

\* C15 witness: --log was given, the listing succeeded with a pod in it that
\* does not match the pattern, and main has ended with status 1.
C15_Witness ==
    /\ mpc = "returned"
    /\ log_file = LogPath
    /\ kubectl.returncode = 0
    /\ \E i \in 1..Len(kubectl.stdout) : kubectl.stdout[i] # <<>>
    /\ pods = <<>>
    /\ status = 1

\* C17: mode selection is exclusive and checked against the list.  main
\* calls at most one of tail_logs and exec_into_pod; exec_into_pod only
\* without --log and with 1 <= pod_num <= len(pods), and then on the
\* pod_num-th pod of the list; with --log it calls tail_logs alone, whatever
\* pod_num is; with a pod number out of range it exits with status 1 and has
\* called nothing; with neither option it calls nothing.
C17_ModeSelection ==
    /\ Len(called) <= 1
    /\ \A c \in 1..Len(called) :
           called[c].fn = "exec_into_pod" =>
               /\ log_file = None
               /\ pod_num # NoPodNum
               /\ 1 <= pod_num[1] /\ pod_num[1] <= Len(pods)
               /\ called[c].pod = pods[pod_num[1]]
    /\ (MainDecided /\ pods # <<>> /\ log_file # None) =>
           (Len(called) = 1 /\ called[1].fn = "tail_logs")
    /\ (MainDecided /\ pods # <<>> /\ log_file = None /\ pod_num # NoPodNum
          /\ (pod_num[1] < 1 \/ pod_num[1] > Len(pods))) =>
           (called = <<>> /\ status = 1)
    /\ (MainDecided /\ log_file = None /\ pod_num = NoPodNum) => called = <<>>

\* C17 witness: without --log and with pod number 2, main has run
\* exec_into_pod on the second pod of a list of two.
C17_Witness ==
    /\ mpc = "returned"
    /\ log_file = None
    /\ pod_num = <<2>>
    /\ pods = PodList(2)
    /\ called = <<[fn |-> "exec_into_pod", pod |-> PodName(2), log_file |-> None]>>

====
